---- MODULE Spec2Model ----
(***************************************************************************)
(* Model of the two map components of geospatial-app-vite.                 *)
(*                                                                         *)
(*   src/src/TurtleMap.jsx  week mode: a discrete week cursor, three       *)
(*                          filtered layers and the proximity alert.       *)
(*   src/src/Map.jsx        continuous mode: a fractional day cursor, a    *)
(*                          slider and the requestAnimationFrame playback. *)
(*                                                                         *)
(* Numbers.  JavaScript numbers are modelled in fixed point: coordinates   *)
(* and presence hours in tenths, instants in hours since the Unix epoch,   *)
(* the continuous cursor in 1/(FPS*SpeedScale) of a day, so that every     *)
(* speed/60 step and every slider position is an integer.  NaN and         *)
(* Infinity are two sentinels outside the value ranges; every arithmetic   *)
(* and comparison operator below treats them as JavaScript does.           *)
(***************************************************************************)
EXTENDS Integers, Sequences, FiniteSets, TLC

VARIABLES
    \* ---- the served resources (environment, fixed for a session) ----
    metaFile,        \* content of the metadata resource
    turtleCsv,       \* data rows of the sighting/trend CSV (header removed)
    vesselCsv,       \* data rows of the vessel CSV (header removed)
    \* ---- React state shared by name between the two components ----
    minDate,         \* useState(null): None or Some(date string)
    trendData,       \* useState(null): None or Some(rows)
    layers,          \* value of the useMemo: list of layer descriptions
    errorLogged,     \* console.error has been called by a .catch
    \* ---- TurtleMap.jsx (week mode) ----
    turtleData,      \* useState(null)
    vesselData,      \* useState(null)
    maxWeek,         \* useState(0)
    currentWeek,     \* useState(0)
    showAlert,       \* useState(false)
    loadPc,          \* position of the Promise.all(...).then handler
    \* ---- Map.jsx (continuous mode) ----
    data,            \* useState(null)
    maxTime,         \* useState(0)
    timeFilterStart, \* useState(0.0), in cursor units
    isPlaying,       \* useState(false)
    speed,           \* useState(1.0), in tenths
    runs,            \* the executions of the load effect
    effectFrame,     \* the frame requested by the play effect is pending
    loopFrames       \* frames requested by animate itself that are pending

vars == <<metaFile, turtleCsv, vesselCsv, minDate, trendData, layers,
          errorLogged, turtleData, vesselData, maxWeek, currentWeek,
          showAlert, loadPc, data, maxTime, timeFilterStart, isPlaying,
          speed, runs, effectFrame, loopFrames>>

envVars  == <<metaFile, turtleCsv, vesselCsv>>
weekVars == <<turtleData, vesselData, maxWeek, currentWeek, showAlert, loadPc>>
contVars == <<data, maxTime, timeFilterStart, isPlaying, speed, runs,
              effectFrame, loopFrames>>

(***************************************************************************)
(* Bounds of the model.                                                    *)
(***************************************************************************)
MaxTurtleRows == 2      \* rows in the sighting/trend CSV
MaxVesselRows == 2      \* rows in the vessel CSV
MaxWeekIndex  == 2      \* week mode: metadata maxTimeIndex is below 7*(MaxWeekIndex+1)
MaxTimeIndex  == 2      \* continuous mode: metadata maxTimeIndex is in 0 .. MaxTimeIndex
MaxLoops      == 2      \* play is pressed while fewer than MaxLoops tick loops run

(***************************************************************************)
(* JavaScript values.                                                      *)
(***************************************************************************)
NaN      == -1000000
Infinity == 1000000

None    == <<>>
Some(v) == <<v>>
IsSet(o) == o # None          \* truthiness of an array-or-null state value
Val(o)   == o[1]

IsNaN(v) == v = NaN

JsSub(a, b) == IF IsNaN(a) \/ IsNaN(b) THEN NaN ELSE a - b
JsAdd(a, b) == IF IsNaN(a) \/ IsNaN(b) THEN NaN ELSE a + b
JsMul(a, b) == IF IsNaN(a) \/ IsNaN(b) THEN NaN ELSE a * b
JsLt(a, b)  == ~IsNaN(a) /\ ~IsNaN(b) /\ a < b
JsGe(a, b)  == ~IsNaN(a) /\ ~IsNaN(b) /\ a >= b
JsGt(a, b)  == ~IsNaN(a) /\ ~IsNaN(b) /\ a > b

\* Math.floor(a / d) for a positive divisor d
FloorDiv(a, d) == IF IsNaN(a) THEN NaN ELSE a \div d

\* parseFloat on the field texts that occur in the modelled files, in tenths
parseFloat(s) ==
    CASE s = "45.0"     -> 450
      [] s = "45.4"     -> 454
      [] s = "-62.0"    -> -620
      [] s = "-61.8"    -> -618
      [] s = "-61.7"    -> -617
      [] s = "-61.5"    -> -615
      [] s = "-60.0"    -> -600
      [] s = "3.5"      -> 35
      [] s = "0"        -> 0
      [] s = "-2"       -> -20
      [] s = "Infinity" -> Infinity
      [] OTHER          -> NaN

\* parseInt(s, 10) on the field texts that occur in the modelled files
parseInt(s) ==
    CASE s = "-1"  -> -1
      [] s = "0"   -> 0
      [] s = "6"   -> 6
      [] s = "7"   -> 7
      [] s = "7.9" -> 7
      [] s = "13"  -> 13
      [] s = "14"  -> 14
      [] OTHER     -> NaN

\* String.prototype.toLowerCase on the is_trend texts
toLowerCase(s) ==
    CASE s = "TRUE"  -> "true"
      [] s = "True"  -> "true"
      [] s = "False" -> "false"
      [] OTHER       -> s

HoursPerDay == 24
Epoch2015   == 16436 * HoursPerDay     \* 2015-01-01T00:00Z in hours

\* new Date(text).getTime() in hours; a date-only ISO text is UTC midnight
DateOf(s) ==
    CASE s = "2015-01-01"           -> Epoch2015
      [] s = "2014-12-30"           -> Epoch2015 - 2 * HoursPerDay
      [] s = "2014-12-31"           -> Epoch2015 - HoursPerDay
      [] s = "2015-01-01T12:00Z"    -> Epoch2015 + 12
      [] s = "2015-01-07T23:00Z"    -> Epoch2015 + 6 * HoursPerDay + 23
      [] s = "2015-01-08"           -> Epoch2015 + 7 * HoursPerDay
      [] s = "2015-01-10"           -> Epoch2015 + 9 * HoursPerDay
      [] s = "2015-01-14T06:00Z"    -> Epoch2015 + 13 * HoursPerDay + 6
      [] s = "2015-01-15"           -> Epoch2015 + 14 * HoursPerDay
      [] OTHER                      -> NaN

(***************************************************************************)
(* Array helpers.                                                          *)
(***************************************************************************)
\* Array.prototype.filter: the elements of q at the indices in keep (those
\* whose element passes the callback), in their order
RECURSIVE KeptFrom(_, _, _)
KeptFrom(q, keep, i) ==
    IF i > Len(q) THEN <<>>
    ELSE IF i \in keep THEN <<q[i]>> \o KeptFrom(q, keep, i + 1)
    ELSE KeptFrom(q, keep, i + 1)

filter(q, keep) == KeptFrom(q, keep, 1)

\* the files of at most n rows that keep rows of pool in their order
FilesUpTo(pool, n) ==
    {filter(pool, I) : I \in {J \in SUBSET DOMAIN pool : Cardinality(J) <= n}}

Range(q) == {q[i] : i \in DOMAIN q}

Max(a, b) == IF a >= b THEN a ELSE b
Min(a, b) == IF a <= b THEN a ELSE b


(***************************************************************************)
(* The served resources.                                                   *)
(***************************************************************************)
\* rows of predicted_turtle_data.csv: latitude,longitude,time_index,is_trend
TurtleRowPool == <<
    [latitude |-> "45.0", longitude |-> "-62.0", time_index |-> "0",  is_trend_str |-> "false"],
    [latitude |-> "45.0", longitude |-> "-62.0", time_index |-> "6",  is_trend_str |-> "TRUE"],
    [latitude |-> "45.0", longitude |-> "-62.0", time_index |-> "7",  is_trend_str |-> "False"],
    [latitude |-> "abc",  longitude |-> "-62.0", time_index |-> "13", is_trend_str |-> "false"],
    [latitude |-> "45.0", longitude |-> "-62.0", time_index |-> "-1", is_trend_str |-> "false"],
    [latitude |-> "45.0", longitude |-> "-62.0", time_index |-> "7",  is_trend_str |-> "undefined"] >>

\* rows of public-global-presence-v3.0.csv: latitude,longitude,date,id,presence_hours
VesselRowPool == <<
    [latitude |-> "45.0", longitude |-> "-61.8", date |-> "2015-01-01T12:00Z", presence_hours |-> "3.5"],
    [latitude |-> "45.4", longitude |-> "-61.7", date |-> "2015-01-08",        presence_hours |-> "0"],
    [latitude |-> "45.0", longitude |-> "-61.5", date |-> "2015-01-07T23:00Z", presence_hours |-> "-2"],
    [latitude |-> "45.0", longitude |-> "-60.0", date |-> "2015-01-10",        presence_hours |-> "Infinity"],
    [latitude |-> "45.0", longitude |-> "-61.8", date |-> "2015-01-08",        presence_hours |-> ""] >>

TurtleFiles == FilesUpTo(TurtleRowPool, MaxTurtleRows)
VesselFiles == FilesUpTo(VesselRowPool, MaxVesselRows)

\* turtle_metadata.json: { minDate, maxTimeIndex }
WeekMetaFiles ==
    [minDate : {"2015-01-01", "2014-12-31"},
     maxTimeIndex : {7 * w + r : w \in 0 .. MaxWeekIndex, r \in {0, 6}}]

(***************************************************************************)
(* TurtleMap.jsx: constants and pure helpers.                              *)
(***************************************************************************)
TIME_WINDOW_DAYS        == 7
PROXIMITY_THRESHOLD_DEG == 5        \* 0.5 degrees, in tenths

\* faulty variant of getDayIndex: the two instants subtracted the wrong way round
getDayIndexSwapped(dateObj, minDateString) ==
    LET minDateObj == DateOf(minDateString)
    IN  FloorDiv(JsSub(minDateObj, dateObj), HoursPerDay)

\* getDayIndex(dateObj, minDateString); the caller passes a set minDate
getDayIndex(dateObj, minDateString) ==
    LET minDateObj == DateOf(minDateString)
    IN  FloorDiv(JsSub(dateObj, minDateObj), HoursPerDay)

\* the row -> record callback of turtleRows.map
ParseTurtleRow(row) ==
    [latitude   |-> parseFloat(row.latitude),
     longitude  |-> parseFloat(row.longitude),
     time_index |-> parseInt(row.time_index),
     is_trend   |-> toLowerCase(row.is_trend_str) = "true"]

\* is_trend_str.toLowerCase() throws a TypeError on a row without the column
TurtleParseThrows(csv) == \E i \in DOMAIN csv : csv[i].is_trend_str = "undefined"

parsedTurtleData(csv) == [i \in DOMAIN csv |-> ParseTurtleRow(csv[i])]

filteredTurtleData(csv) ==
    LET parsed == parsedTurtleData(csv)
    IN  filter(parsed, {i \in DOMAIN parsed : JsGe(parsed[i].time_index, 0)})

\* rows.filter((d) => !d.is_trend) and rows.filter((d) => d.is_trend)
sightingsOf(rows) == filter(rows, {i \in DOMAIN rows : ~rows[i].is_trend})
trendsOf(rows)    == filter(rows, {i \in DOMAIN rows : rows[i].is_trend})

LoadedTurtleData(csv) == sightingsOf(filteredTurtleData(csv))
LoadedTrendData(csv)  == trendsOf(filteredTurtleData(csv))

\* the row -> record callback of vesselRows.map
ParseVesselRow(row) ==
    [latitude       |-> parseFloat(row.latitude),
     longitude      |-> parseFloat(row.longitude),
     date           |-> DateOf(row.date),
     presence_hours |-> parseFloat(row.presence_hours)]

parsedVesselData(csv) ==
    LET parsed == [i \in DOMAIN csv |-> ParseVesselRow(csv[i])]
    IN  filter(parsed, {i \in DOMAIN parsed :
                            /\ ~IsNaN(parsed[i].latitude)
                            /\ ~IsNaN(parsed[i].longitude)
                            /\ ~IsNaN(parsed[i].presence_hours)})

\* faulty variant of WithinThreshold: <= in place of <
WithinThresholdInclusive(vessel, turtle) ==
    LET dx          == JsSub(vessel.longitude, turtle.longitude)
        dy          == JsSub(vessel.latitude, turtle.latitude)
        distSquared == JsAdd(JsMul(dx, dx), JsMul(dy, dy))
        thresholdSquared == PROXIMITY_THRESHOLD_DEG * PROXIMITY_THRESHOLD_DEG
    IN  ~JsGt(distSquared, thresholdSquared) /\ ~IsNaN(distSquared)

\* the distance test of one (vessel, turtle) pair
WithinThreshold(vessel, turtle) ==
    LET dx          == JsSub(vessel.longitude, turtle.longitude)
        dy          == JsSub(vessel.latitude, turtle.latitude)
        distSquared == JsAdd(JsMul(dx, dx), JsMul(dy, dy))
        thresholdSquared == PROXIMITY_THRESHOLD_DEG * PROXIMITY_THRESHOLD_DEG
    IN  JsLt(distSquared, thresholdSquared)

\* the nested scan of the proximity detector, with its early exit
RECURSIVE ScanTurtles(_, _, _)
ScanTurtles(vessel, turtles, j) ==
    IF j > Len(turtles) THEN FALSE
    ELSE IF WithinThreshold(vessel, turtles[j]) THEN TRUE
    ELSE ScanTurtles(vessel, turtles, j + 1)

RECURSIVE ScanVessels(_, _, _)
ScanVessels(vessels, turtles, i) ==
    IF i > Len(vessels) THEN FALSE
    ELSE IF ScanTurtles(vessels[i], turtles, 1) THEN TRUE
    ELSE ScanVessels(vessels, turtles, i + 1)

proximityFound(turtlesThisWeek, vesselsThisWeek) ==
    IF Len(turtlesThisWeek) > 0 /\ Len(vesselsThisWeek) > 0
    THEN ScanVessels(vesselsThisWeek, turtlesThisWeek, 1)
    ELSE FALSE

\* the three filters of the layers memo
filterRange(week) == <<week * TIME_WINDOW_DAYS, week * TIME_WINDOW_DAYS + TIME_WINDOW_DAYS>>

\* faulty variant of InFilterRange: the upper end of the window included
InFilterRangeInclusive(d, range) ==
    JsGe(d.time_index, range[1]) /\ ~JsGt(d.time_index, range[2]) /\ ~IsNaN(d.time_index)

\* d.time_index >= filterRange[0] && d.time_index < filterRange[1]
InFilterRange(d, range) == JsGe(d.time_index, range[1]) /\ JsLt(d.time_index, range[2])

turtlesThisWeek(turtles, week) ==
    filter(turtles, {i \in DOMAIN turtles : InFilterRange(turtles[i], filterRange(week))})

trendsThisWeek(trends, week) ==
    filter(trends, {i \in DOMAIN trends : InFilterRange(trends[i], filterRange(week))})

vesselsThisWeek(vessels, week, minDateString) ==
    LET startDayIndex == week * TIME_WINDOW_DAYS
        dayIndex(d)   == getDayIndex(d.date, minDateString)
    IN  filter(vessels,
               {i \in DOMAIN vessels :
                    /\ JsGe(dayIndex(vessels[i]), startDayIndex)
                    /\ JsLt(dayIndex(vessels[i]), startDayIndex + TIME_WINDOW_DAYS)})

\* the guard at the head of the layers memo
WeekGate(turtles, trends, vessels, minD) ==
    ~IsSet(turtles) \/ ~IsSet(trends) \/ ~IsSet(vessels) \/ ~IsSet(minD)

\* faulty variant of WeekLayers: the guard forgets vesselData and the filter
\* runs on (vesselData || [])
WeekLayersVesselsDefaulted(turtles, trends, vessels, minD, week) ==
    IF ~IsSet(turtles) \/ ~IsSet(trends) \/ ~IsSet(minD) THEN <<>>
    ELSE LET vesselRows == IF IsSet(vessels) THEN Val(vessels) ELSE <<>>
         IN  << [id |-> "vessel-heatmap",
                 data |-> vesselsThisWeek(vesselRows, week, Val(minD))],
                [id |-> "turtle-trend-path",
                 data |-> trendsThisWeek(Val(trends), week)],
                [id |-> "turtle-locations-filtered",
                 data |-> turtlesThisWeek(Val(turtles), week),
                 filterRange |-> filterRange(week)] >>

\* the layer list the memo returns
WeekLayers(turtles, trends, vessels, minD, week) ==
    IF WeekGate(turtles, trends, vessels, minD) THEN <<>>
    ELSE << [id |-> "vessel-heatmap",
             data |-> vesselsThisWeek(Val(vessels), week, Val(minD))],
            [id |-> "turtle-trend-path",
             data |-> trendsThisWeek(Val(trends), week)],
            [id |-> "turtle-locations-filtered",
             data |-> turtlesThisWeek(Val(turtles), week),
             filterRange |-> filterRange(week)] >>

\* faulty variant of WeekAlert: an alert once raised is kept
WeekAlertSticky(turtles, trends, vessels, minD, week, old) ==
    IF WeekGate(turtles, trends, vessels, minD) THEN old
    ELSE old \/ proximityFound(turtlesThisWeek(Val(turtles), week),
                               vesselsThisWeek(Val(vessels), week, Val(minD)))

\* setShowAlert(proximityFound) inside the memo; untouched when the memo is gated
WeekAlert(turtles, trends, vessels, minD, week, old) ==
    IF WeekGate(turtles, trends, vessels, minD) THEN old
    ELSE proximityFound(turtlesThisWeek(Val(turtles), week),
                        vesselsThisWeek(Val(vessels), week, Val(minD)))

\* A render of TurtleMap.jsx after the state took the primed values
WeekRender ==
    /\ layers' = WeekLayers(turtleData', trendData', vesselData', minDate', currentWeek')
    /\ showAlert' = WeekAlert(turtleData', trendData', vesselData', minDate',
                              currentWeek', showAlert)

\* the condition under which Legend, WeekSelector and the alert are rendered
WeekControlsShown == IsSet(turtleData) /\ IsSet(trendData) /\ IsSet(minDate) /\ IsSet(vesselData)


(***************************************************************************)
(* TurtleMap.jsx: the load effect.  Promise.all joins the three fetches;   *)
(* its .then handler makes six state updates.  A React root that batches   *)
(* them renders once after the handler (ThenBatched); a root that does not *)
(* renders after each update (the ThenSet... steps).                       *)
(***************************************************************************)
\* a fetch rejects, or res.json() rejects: Promise.all rejects, .catch logs
LoadRejected ==
    /\ loadPc = "fetching"
    /\ loadPc' = "failed"
    /\ errorLogged' = TRUE
    /\ UNCHANGED <<envVars, minDate, trendData, layers, turtleData, vesselData,
                   maxWeek, currentWeek, showAlert, contVars>>

calculatedMaxWeek(meta) == FloorDiv(meta.maxTimeIndex, TIME_WINDOW_DAYS)

ThenBatched ==
    /\ loadPc = "fetching"
    /\ minDate' = Some(metaFile.minDate)
    /\ maxWeek' = calculatedMaxWeek(metaFile)
    /\ currentWeek' = 0
    /\ IF TurtleParseThrows(turtleCsv)
       THEN /\ loadPc' = "failed"
            /\ errorLogged' = TRUE
            /\ UNCHANGED <<turtleData, trendData, vesselData>>
       ELSE /\ loadPc' = "done"
            /\ turtleData' = Some(LoadedTurtleData(turtleCsv))
            /\ trendData' = Some(LoadedTrendData(turtleCsv))
            /\ vesselData' = Some(parsedVesselData(vesselCsv))
            /\ UNCHANGED errorLogged
    /\ UNCHANGED <<envVars, contVars>>
    /\ WeekRender

ThenSetMinDate ==
    /\ loadPc = "fetching"
    /\ loadPc' = "setMaxWeek"
    /\ minDate' = Some(metaFile.minDate)
    /\ UNCHANGED <<envVars, trendData, errorLogged, turtleData, vesselData,
                   maxWeek, currentWeek, contVars>>
    /\ WeekRender

ThenSetMaxWeek ==
    /\ loadPc = "setMaxWeek"
    /\ loadPc' = "setCurrentWeek"
    /\ maxWeek' = calculatedMaxWeek(metaFile)
    /\ UNCHANGED <<envVars, minDate, trendData, errorLogged, turtleData,
                   vesselData, currentWeek, contVars>>
    /\ WeekRender

ThenSetCurrentWeek ==
    /\ loadPc = "setCurrentWeek"
    /\ loadPc' = "setTurtleData"
    /\ currentWeek' = 0
    /\ UNCHANGED <<envVars, minDate, trendData, errorLogged, turtleData,
                   vesselData, maxWeek, contVars>>
    /\ WeekRender

ThenSetTurtleData ==
    /\ loadPc = "setTurtleData"
    /\ IF TurtleParseThrows(turtleCsv)
       THEN /\ loadPc' = "failed"
            /\ errorLogged' = TRUE
            /\ UNCHANGED turtleData
       ELSE /\ loadPc' = "setTrendData"
            /\ turtleData' = Some(LoadedTurtleData(turtleCsv))
            /\ UNCHANGED errorLogged
    /\ UNCHANGED <<envVars, minDate, trendData, vesselData, maxWeek,
                   currentWeek, contVars>>
    /\ WeekRender

ThenSetTrendData ==
    /\ loadPc = "setTrendData"
    /\ loadPc' = "setVesselData"
    /\ trendData' = Some(LoadedTrendData(turtleCsv))
    /\ UNCHANGED <<envVars, minDate, errorLogged, turtleData, vesselData,
                   maxWeek, currentWeek, contVars>>
    /\ WeekRender

ThenSetVesselData ==
    /\ loadPc = "setVesselData"
    /\ loadPc' = "done"
    /\ vesselData' = Some(parsedVesselData(vesselCsv))
    /\ UNCHANGED <<envVars, minDate, trendData, errorLogged, turtleData,
                   maxWeek, currentWeek, contVars>>
    /\ WeekRender

(***************************************************************************)
(* TurtleMap.jsx: WeekSelector.                                            *)
(***************************************************************************)
\* faulty variant of nextWeek: no Math.min
nextWeekUnclamped(w, maxW) == w + 1

prevWeek(w, maxW) == Max(0, w - 1)
nextWeek(w, maxW) == Min(maxW, w + 1)

\* The two click handlers.  The buttons are disabled at week 0 and at week
\* maxWeek, where the clamped updaters change nothing: a press there is
\* modelled as the step that leaves the week alone, so the reachable states
\* are those of the component and the updaters are exercised at both ends.
\* onClick of "< Previous Week"
PreviousWeek ==
    /\ WeekControlsShown
    /\ currentWeek' = prevWeek(currentWeek, maxWeek)
    /\ UNCHANGED <<envVars, minDate, trendData, errorLogged, turtleData,
                   vesselData, maxWeek, loadPc, contVars>>
    /\ WeekRender

\* onClick of "Next Week >"
NextWeek ==
    /\ WeekControlsShown
    /\ currentWeek' = nextWeek(currentWeek, maxWeek)
    /\ UNCHANGED <<envVars, minDate, trendData, errorLogged, turtleData,
                   vesselData, maxWeek, loadPc, contVars>>
    /\ WeekRender

(***************************************************************************)
(* Claims about the week-mode component, checked under SpecWeek.           *)
(***************************************************************************)
\* the window of week w, as the specification states it
InWeekWindow(t, w) == t # NaN /\ w * 7 <= t /\ t < w * 7 + 7

\* the day index of an instant: the k with minDate + k days <= date < minDate + (k+1) days
DayOfInstant(date, minD, k) ==
    /\ date # NaN
    /\ DateOf(minD) + k * HoursPerDay <= date
    /\ date < DateOf(minD) + (k + 1) * HoursPerDay

VesselInWeek(d, minD, w) == \E k \in w * 7 .. w * 7 + 6 : DayOfInstant(d.date, minD, k)

\* C1: in week mode each of the three displayed subsets holds exactly the
\* records of its class whose day index t satisfies w*7 <= t < w*7 + 7 for
\* the current week w, so the three layers always show the same week.
C1_LayersShowCurrentWeek ==
    WeekControlsShown =>
        /\ Len(layers) = 3
        /\ layers[3].data = SelectSeq(Val(turtleData),
                                LAMBDA r : InWeekWindow(r.time_index, currentWeek))
        /\ layers[2].data = SelectSeq(Val(trendData),
                                LAMBDA r : InWeekWindow(r.time_index, currentWeek))
        /\ layers[1].data = SelectSeq(Val(vesselData),
                                LAMBDA r : VesselInWeek(r, Val(minDate), currentWeek))
        /\ \A r \in Range(layers[3].data) : ~r.is_trend
        /\ \A r \in Range(layers[2].data) : r.is_trend

\* week 1 is displayed; a sighting and a vessel are shown, another sighting and
\* another vessel of the store are outside the window
C1_Witness ==
    /\ WeekControlsShown
    /\ currentWeek = 1
    /\ Len(layers[3].data) = 1 /\ Len(Val(turtleData)) = 2
    /\ Len(layers[1].data) = 1 /\ Len(Val(vesselData)) = 2

\* squared planar distance of a pair, in squared tenths of a degree
PairDistSq(v, t) ==
    (v.longitude - t.longitude) * (v.longitude - t.longitude)
        + (v.latitude - t.latitude) * (v.latitude - t.latitude)

PairIsNumeric(v, t) ==
    v.longitude # NaN /\ v.latitude # NaN /\ t.longitude # NaN /\ t.latitude # NaN

\* C2: the alert is raised iff some (vessel, sighting) pair of the current
\* window's subsets has dLon^2 + dLat^2 strictly below 0.5^2; it is not raised
\* when a subset is empty or when the closest pair is exactly 0.5 degrees apart.
C2_AlertIffPairStrictlyWithinThreshold ==
    WeekControlsShown =>
        (showAlert <=>
            \E v \in Range(layers[1].data), t \in Range(layers[3].data) :
                PairIsNumeric(v, t) /\ PairDistSq(v, t) < 5 * 5)

\* a vessel and a sighting of the window are exactly 0.5 degrees apart, no alert
C2_Witness ==
    /\ WeekControlsShown
    /\ ~showAlert
    /\ \E v \in Range(layers[1].data), t \in Range(layers[3].data) :
            PairIsNumeric(v, t) /\ PairDistSq(v, t) = 5 * 5

\* C5: while any of turtleData, trendData, vesselData or minDate is unset the
\* layer computation returns the empty list and the alert flag has never been
\* written.
C5_NoComputationBeforeLoadComplete ==
    (~IsSet(turtleData) \/ ~IsSet(trendData) \/ ~IsSet(vesselData) \/ ~IsSet(minDate))
        => (layers = <<>> /\ showAlert = FALSE)

\* the handler has stored everything but the vessel records, nothing is computed
C5_Witness ==
    /\ IsSet(minDate) /\ IsSet(turtleData) /\ IsSet(trendData)
    /\ ~IsSet(vesselData)
    /\ Len(Val(turtleData)) > 0
    /\ Len(vesselCsv) > 0
    /\ layers = <<>>

\* C6: the load sets maxWeek = floor(maxTimeIndex / 7) and currentWeek = 0;
\* afterwards 0 <= currentWeek <= maxWeek, Previous at week 0 and Next at week
\* maxWeek leave currentWeek unchanged, every other press changes it by one.
C6_WeekNavigationClamped ==
    [][ /\ (loadPc # "done" /\ loadPc' = "done")
            => (maxWeek' = metaFile.maxTimeIndex \div 7 /\ currentWeek' = 0)
        /\ WeekControlsShown'
            => (0 <= currentWeek' /\ currentWeek' <= maxWeek')
        /\ PreviousWeek
            => currentWeek' = (IF currentWeek = 0 THEN 0 ELSE currentWeek - 1)
        /\ NextWeek
            => currentWeek' = (IF currentWeek = maxWeek THEN maxWeek ELSE currentWeek + 1)
      ]_vars

\* the last of three weeks has been reached with Next Week
C6_Witness ==
    /\ WeekControlsShown
    /\ maxWeek = 2
    /\ currentWeek = maxWeek

\* C7: a vessel record dated minDate + k whole days has day index k and is in
\* the vessel subset of week w iff w*7 <= k < w*7 + 7.
C7_VesselDayIndex ==
    WeekControlsShown =>
        \A d \in Range(Val(vesselData)) :
            \A k \in -7 .. 7 * (maxWeek + 2) :
                d.date = DateOf(Val(minDate)) + k * HoursPerDay
                    => /\ getDayIndex(d.date, Val(minDate)) = k
                       /\ (d \in Range(layers[1].data)
                              <=> (currentWeek * 7 <= k /\ k < currentWeek * 7 + 7))

\* the vessel dated minDate + 9 days is shown in week 1 ...
C7_Witness ==
    /\ WeekControlsShown
    /\ currentWeek = 1
    /\ \E d \in Range(layers[1].data) :
            d.date = DateOf(Val(minDate)) + 9 * HoursPerDay


\* C11: after a load every vessel record of the store has numeric latitude
\* and longitude and a finite, non-negative presence_hours; other rows of the
\* vessel CSV have been discarded at load time.
C11_VesselRecordsValidated ==
    IsSet(vesselData) =>
        \A d \in Range(Val(vesselData)) :
            /\ d.latitude # NaN
            /\ d.longitude # NaN
            /\ d.presence_hours # NaN
            /\ d.presence_hours # Infinity
            /\ d.presence_hours >= 0

\* a vessel and a sighting of the record store that are both in week w and
\* less than 0.5 degrees apart
QualifyingPairInWeek(w) ==
    \E v \in Range(Val(vesselData)), t \in Range(Val(turtleData)) :
        /\ VesselInWeek(v, Val(minDate), w)
        /\ InWeekWindow(t.time_index, w)
        /\ PairIsNumeric(v, t)
        /\ PairDistSq(v, t) < 5 * 5

\* C14: the alert is stateless: after every recomputation the flag is the
\* detector's result for the window of the current week alone, whatever the
\* earlier windows held.
C14_AlertIsForCurrentWindowOnly ==
    WeekControlsShown => (showAlert <=> QualifyingPairInWeek(currentWeek))

\* week 0 holds a qualifying pair (the alert was up after the load); a later
\* week without one is displayed and the alert is down
C14_Witness ==
    /\ WeekControlsShown
    /\ currentWeek >= 1
    /\ QualifyingPairInWeek(0)
    /\ ~QualifyingPairInWeek(currentWeek)
    /\ ~showAlert

(***************************************************************************)
(* Map.jsx (the TurtleMap of the continuous cursor): constants and helpers. *)
(* The cursor is counted in units of 1/UnitsPerDay of a day, the speed in  *)
(* tenths, so that speed / FPS days is exactly `speed` units.              *)
(***************************************************************************)
FPS         == 60
SpeedScale  == 10                   \* the speed slider moves in steps of 0.1
UnitsPerDay == FPS * SpeedScale
SliderStep  == UnitsPerDay \div 3   \* step={1 / 3.0} of the time slider
DefaultSpeed == 10                  \* useState(1.0)
SPEED_MAX    == 50                  \* max={5.0} of the speed slider

\* the speeds the model sets: the default 1.0x and the maximum 5.0x
Speeds == {DefaultSpeed, SPEED_MAX}

\* faulty variant of SliderValues: the range input offers one position past max
SliderValuesPastMax(maxT) ==
    {n * SliderStep : n \in 0 .. ((maxT * UnitsPerDay) \div SliderStep) + 1}

\* the positions of <input type="range" min={0} max={maxTime} step={1/3}>
SliderValues(maxT) == {n * SliderStep : n \in 0 .. (maxT * UnitsPerDay) \div SliderStep}

ContRowPool == <<
    [latitude |-> "45.0", longitude |-> "-62.0", time_index |-> "6",  is_trend_str |-> "TRUE"],
    [latitude |-> "45.0", longitude |-> "-62.0", time_index |-> "7",  is_trend_str |-> "False"],
    [latitude |-> "45.0", longitude |-> "-62.0", time_index |-> "7",  is_trend_str |-> "undefined"] >>

ContTurtleFiles == FilesUpTo(ContRowPool, MaxTurtleRows)

ContMetaFiles == [minDate : {"2014-12-30"}, maxTimeIndex : 0 .. MaxTimeIndex]

\* faulty variant of integerDay: Math.round in place of Math.floor
integerDayRounded(timeIndex) == (2 * timeIndex + UnitsPerDay) \div (2 * UnitsPerDay)

\* Math.floor(timeFilterStart)
integerDay(timeIndex) == timeIndex \div UnitsPerDay

\* ((timeIndex % 1) * 24).toFixed(0): the nearest integer, a half rounds up
hoursLabel(timeIndex) ==
    LET hours == (timeIndex % UnitsPerDay) * 24      \* in 1/UnitsPerDay hours
    IN  (2 * hours + UnitsPerDay) \div (2 * UnitsPerDay)

\* new Date(minDate).getTime() for the minDate a load closure captured;
\* new Date(null) is the epoch
referenceDate(capturedMinDate) ==
    IF IsSet(capturedMinDate) THEN DateOf(Val(capturedMinDate)) ELSE 0

cutoffIndex(capturedMinDate) ==
    FloorDiv(JsSub(DateOf("2015-01-01"), referenceDate(capturedMinDate)), HoursPerDay)

filteredData(csv, capturedMinDate) ==
    LET parsedData == parsedTurtleData(csv)
    IN  filter(parsedData,
               {i \in DOMAIN parsedData :
                    JsGe(parsedData[i].time_index, cutoffIndex(capturedMinDate))})

\* faulty variant of newTime: the overshoot is kept on wrap-around
newTimeKeepsRemainder(timeFilterRef, speedRef, maxTimeRef) ==
    LET STEP_PER_FRAME == speedRef
        advanced == timeFilterRef + STEP_PER_FRAME
    IN  IF advanced > maxTimeRef * UnitsPerDay
        THEN advanced - maxTimeRef * UnitsPerDay
        ELSE advanced

\* the new cursor one call of animate stores
newTime(timeFilterRef, speedRef, maxTimeRef) ==
    LET STEP_PER_FRAME == speedRef
        advanced == timeFilterRef + STEP_PER_FRAME
    IN  IF advanced > maxTimeRef * UnitsPerDay THEN 0 ELSE advanced

\* the layer list the memo returns
ContLayers(sightings, trends, timeFilter) ==
    IF ~IsSet(sightings) \/ ~IsSet(trends) THEN <<>>
    ELSE << [id |-> "turtle-trend-path",
             data |-> Val(trends),
             filterRange |-> <<integerDay(timeFilter),
                               integerDay(timeFilter) + TIME_WINDOW_DAYS>>],
            [id |-> "turtle-locations-filtered",
             data |-> Val(sightings),
             filterRange |-> <<integerDay(timeFilter),
                               integerDay(timeFilter) + TIME_WINDOW_DAYS>>] >>

\* A render of Map.jsx after the state took the primed values.  The three
\* ref-synchronising effects run with it, so that between two steps
\* speedRef, timeFilterRef and maxTimeRef hold speed, timeFilterStart and
\* maxTime.
ContRender == layers' = ContLayers(data', trendData', timeFilterStart')

\* the condition under which TimeSlider and the counter are rendered
ContControlsShown == IsSet(data) /\ IsSet(trendData) /\ IsSet(minDate)

(***************************************************************************)
(* Map.jsx: the load effect, with dependencies [csvUrl, metadataUrl,       *)
(* minDate].  Every execution is a promise chain of its own that keeps the *)
(* minDate of the render that started it; runs[r] is the r-th execution.   *)
(***************************************************************************)
NewRun(capturedMinDate) == [pc |-> "meta", minDate |-> capturedMinDate]

\* fetch(metadataUrl) or res.json() rejects: the chain skips to .catch
MetaRejected(r) ==
    /\ runs[r].pc = "meta"
    /\ runs' = [runs EXCEPT ![r].pc = "failed"]
    /\ errorLogged' = TRUE
    /\ UNCHANGED <<envVars, minDate, trendData, layers, weekVars, data, maxTime,
                   timeFilterStart, isPlaying, speed, effectFrame, loopFrames>>

\* .then(meta => ...): three state updates and the CSV fetch; a changed
\* minDate re-executes the effect after the render
MetaResolved(r) ==
    /\ runs[r].pc = "meta"
    /\ minDate' = Some(metaFile.minDate)
    /\ maxTime' = metaFile.maxTimeIndex
    /\ timeFilterStart' = 0
    /\ runs' = IF minDate' # minDate
               THEN Append([runs EXCEPT ![r].pc = "csv"], NewRun(minDate'))
               ELSE [runs EXCEPT ![r].pc = "csv"]
    /\ UNCHANGED <<envVars, trendData, errorLogged, weekVars, data, isPlaying,
                   speed, effectFrame, loopFrames>>
    /\ ContRender

\* fetch(csvUrl) rejects
CsvRejected(r) ==
    /\ runs[r].pc = "csv"
    /\ runs' = [runs EXCEPT ![r].pc = "failed"]
    /\ errorLogged' = TRUE
    /\ UNCHANGED <<envVars, minDate, trendData, layers, weekVars, data, maxTime,
                   timeFilterStart, isPlaying, speed, effectFrame, loopFrames>>

\* .then(text => ...): parse, cut off, split, setData and setTrendData
CsvResolved(r) ==
    /\ runs[r].pc = "csv"
    /\ IF TurtleParseThrows(turtleCsv)
       THEN /\ runs' = [runs EXCEPT ![r].pc = "failed"]
            /\ errorLogged' = TRUE
            /\ UNCHANGED <<data, trendData>>
       ELSE /\ runs' = [runs EXCEPT ![r].pc = "done"]
            /\ data' = Some(sightingsOf(filteredData(turtleCsv, runs[r].minDate)))
            /\ trendData' = Some(trendsOf(filteredData(turtleCsv, runs[r].minDate)))
            /\ UNCHANGED errorLogged
    /\ UNCHANGED <<envVars, minDate, weekVars, maxTime, timeFilterStart,
                   isPlaying, speed, effectFrame, loopFrames>>
    /\ ContRender

(***************************************************************************)
(* Map.jsx: the controls.                                                  *)
(***************************************************************************)
\* onChange of the time slider
SliderChange(v) ==
    /\ ContControlsShown
    /\ timeFilterStart' = v
    /\ UNCHANGED <<envVars, minDate, trendData, errorLogged, weekVars, data,
                   maxTime, isPlaying, speed, runs, effectFrame, loopFrames>>
    /\ ContRender

\* onChange of the speed slider
SpeedChange(s) ==
    /\ ContControlsShown
    /\ speed' = s
    /\ UNCHANGED <<envVars, minDate, trendData, layers, errorLogged, weekVars,
                   data, maxTime, timeFilterStart, isPlaying, runs, effectFrame,
                   loopFrames>>

\* the play/pause button while stopped: setIsPlaying(true); the play effect
\* requests a frame for the new animate and keeps its id
Play ==
    /\ ContControlsShown
    /\ ~isPlaying
    /\ loopFrames < MaxLoops
    /\ isPlaying' = TRUE
    /\ effectFrame' = TRUE
    /\ UNCHANGED <<envVars, minDate, trendData, layers, errorLogged, weekVars,
                   data, maxTime, timeFilterStart, speed, runs, loopFrames>>

\* the play/pause button while playing: setIsPlaying(false); the cleanup of
\* the play effect cancels the frame whose id it kept
Pause ==
    /\ ContControlsShown
    /\ isPlaying
    /\ isPlaying' = FALSE
    /\ effectFrame' = FALSE
    /\ UNCHANGED <<envVars, minDate, trendData, layers, errorLogged, weekVars,
                   data, maxTime, timeFilterStart, speed, runs, loopFrames>>

(***************************************************************************)
(* Map.jsx: one animation frame.  The browser calls every pending          *)
(* callback.  Each is the animate of a render in which isPlaying was true  *)
(* (the play effect requests nothing otherwise, and animate requests only  *)
(* itself), so its test of the captured isPlaying passes whatever the      *)
(* state is now; it reads the refs, stores the new cursor and requests     *)
(* itself again without keeping the id.  The callbacks of one frame read   *)
(* the same refs: the render that synchronises them comes after the frame. *)
(***************************************************************************)
PendingFrames == loopFrames + (IF effectFrame THEN 1 ELSE 0)

Frame ==
    /\ PendingFrames > 0
    /\ timeFilterStart' = newTime(timeFilterStart, speed, maxTime)
    /\ loopFrames' = PendingFrames
    /\ effectFrame' = FALSE
    /\ UNCHANGED <<envVars, minDate, trendData, errorLogged, weekVars, data,
                   maxTime, isPlaying, speed, runs>>
    /\ ContRender

(***************************************************************************)
(* Specification of the week-mode component.                               *)
(***************************************************************************)
\* the useState initial values of both components, no frame requested
InitState ==
    /\ minDate = None
    /\ trendData = None
    /\ layers = <<>>
    /\ errorLogged = FALSE
    /\ turtleData = None
    /\ vesselData = None
    /\ maxWeek = 0
    /\ currentWeek = 0
    /\ showAlert = FALSE
    /\ data = None
    /\ maxTime = 0
    /\ timeFilterStart = 0
    /\ isPlaying = FALSE
    /\ speed = DefaultSpeed
    /\ effectFrame = FALSE
    /\ loopFrames = 0

\* TurtleMap.jsx is mounted: its load effect has started the three fetches
InitWeek ==
    /\ metaFile \in WeekMetaFiles
    /\ turtleCsv \in TurtleFiles
    /\ vesselCsv \in VesselFiles
    /\ InitState
    /\ loadPc = "fetching"
    /\ runs = <<>>

NextWeekMode ==
    \/ LoadRejected
    \/ ThenBatched
    \/ ThenSetMinDate
    \/ ThenSetMaxWeek
    \/ ThenSetCurrentWeek
    \/ ThenSetTurtleData
    \/ ThenSetTrendData
    \/ ThenSetVesselData
    \/ PreviousWeek
    \/ NextWeek

SpecWeek == InitWeek /\ [][NextWeekMode]_vars


(***************************************************************************)
(* Specification of the continuous-mode component.                         *)
(***************************************************************************)
\* Map.jsx is mounted: the first execution of its load effect fetches the metadata
InitCont ==
    /\ metaFile \in ContMetaFiles
    /\ turtleCsv \in ContTurtleFiles
    /\ vesselCsv = <<>>
    /\ InitState
    /\ loadPc = "unmounted"
    /\ runs = <<NewRun(None)>>

NextCont ==
    \/ \E r \in DOMAIN runs : MetaRejected(r)
    \/ \E r \in DOMAIN runs : MetaResolved(r)
    \/ \E r \in DOMAIN runs : CsvRejected(r)
    \/ \E r \in DOMAIN runs : CsvResolved(r)
    \/ \E v \in SliderValues(maxTime) : SliderChange(v)
    \/ \E s \in Speeds : SpeedChange(s)
    \/ Play
    \/ Pause
    \/ Frame

SpecCont == InitCont /\ [][NextCont]_vars


(***************************************************************************)
(* Claims about the continuous-mode component, checked under SpecCont.     *)
(***************************************************************************)
\* C3: the cursor advances only while Playing: once pause() has moved the
\* driver to Stopped, no animation frame changes the cursor until play().
C3_StoppedCursorIsNotAdvanced ==
    [][(~isPlaying /\ Frame) => timeFilterStart' = timeFilterStart]_vars

\* C4: a tick whose cursor + speed/60 exceeds maxCursor stores exactly 0;
\* every other tick stores cursor + speed/60; the tick loop keeps running.
C4_TickWrapsToZero ==
    [][Frame =>
          /\ timeFilterStart' =
                (IF timeFilterStart + speed > maxTime * UnitsPerDay
                 THEN 0
                 ELSE timeFilterStart + speed)
          /\ loopFrames' >= 1
          /\ isPlaying' = isPlaying
      ]_vars

\* playback has carried the cursor off the slider positions to a place where
\* the next tick overshoots maxCursor by a remainder
C4_Witness ==
    /\ ContControlsShown
    /\ isPlaying
    /\ loopFrames >= 1
    /\ timeFilterStart % SliderStep # 0
    /\ timeFilterStart < maxTime * UnitsPerDay
    /\ timeFilterStart + speed > maxTime * UnitsPerDay

\* C8: the window of both layers is [floor(c), floor(c) + 7) for the cursor c,
\* whatever the fractional part of c.
C8_WindowIsFloorOfCursor ==
    layers # <<>> =>
        \E n \in 0 .. maxTime :
            /\ n * UnitsPerDay <= timeFilterStart
            /\ timeFilterStart < (n + 1) * UnitsPerDay
            /\ layers[1].filterRange = <<n, n + 7>>
            /\ layers[2].filterRange = <<n, n + 7>>

\* the cursor is in the second half of day 1: the window is still [1, 8)
C8_Witness ==
    /\ layers # <<>>
    /\ timeFilterStart > UnitsPerDay + UnitsPerDay \div 2
    /\ timeFilterStart < 2 * UnitsPerDay
    /\ layers[1].filterRange = <<1, 8>>
    /\ layers[2].filterRange = <<1, 8>>

\* C9: the hour of the label is floor(frac(cursor) * 24), hence in 0 .. 23.
C9_HourIsTruncated ==
    ContControlsShown =>
        /\ hoursLabel(timeFilterStart)
              = ((timeFilterStart % UnitsPerDay) * 24) \div UnitsPerDay
        /\ hoursLabel(timeFilterStart) \in 0 .. 23

\* C10: once a fetch has failed or a content could not be parsed (the .catch
\* has logged it) the component never shows its controls.
C10_FailedLoadStaysLoading == errorLogged => ~ContControlsShown

\* every execution of the load effect has settled
LoadsSettled == \A r \in DOMAIN runs : runs[r].pc \in {"done", "failed"}

\* C12: minDate is set before anything derived from it is computed and is
\* used consistently: an execution of the load that has computed its cut-off
\* index did so with the loaded minDate, and once the fetches have settled the
\* displayed record store is the one cut off against the loaded minDate.
C12_MinDateSetBeforeUse ==
    /\ \A r \in DOMAIN runs :
          runs[r].pc = "done" => (IsSet(runs[r].minDate) /\ runs[r].minDate = minDate)
    /\ (LoadsSettled /\ ContControlsShown) =>
          /\ Val(data) = sightingsOf(filteredData(turtleCsv, minDate))
          /\ Val(trendData) = trendsOf(filteredData(turtleCsv, minDate))

\* C13: while Playing there is never more than one active tick loop, and a
\* frame applies exactly one advance of speed/60 (or the wrap to 0).
C13_SingleTickLoop ==
    [][(isPlaying /\ Frame) =>
          /\ PendingFrames <= 1
          /\ timeFilterStart' =
                (IF timeFilterStart + speed > maxTime * UnitsPerDay
                 THEN 0
                 ELSE timeFilterStart + speed)
      ]_vars

\* C15: once the data is loaded, slider sets, play/pause toggles, speed
\* changes and playback ticks keep the cursor within [0, maxCursor].
C15_CursorWithinBounds ==
    ContControlsShown =>
        /\ 0 <= timeFilterStart
        /\ timeFilterStart <= maxTime * UnitsPerDay

\* playback has ticked at the highest speed and the cursor stands above zero
\* where the next tick would overstep the maximum
C15_Witness ==
    /\ ContControlsShown
    /\ isPlaying
    /\ loopFrames >= 1
    /\ maxTime >= 1
    /\ speed = SPEED_MAX
    /\ timeFilterStart > 0
    /\ timeFilterStart + speed > maxTime * UnitsPerDay

====
